---- MODULE Spec2Model ----
(***************************************************************************)
(* Local-first synchronisation engine of the note-taking client.           *)
(* Sources: src/src/lib/sync.ts (engine), src/src/lib/db.ts (local store), *)
(* src/src/App.tsx and src/src/components/NoteEditor.tsx (UI callers).     *)
(*                                                                         *)
(* Time is in milliseconds (Date.now()).  updated_at strings are ISO-8601  *)
(* renderings of the same clock and are compared as strings by the code;   *)
(* for one format that order is the numeric order, so they are numbers.    *)
(* Suspension points are the remote calls: every action below runs from    *)
(* one remote await (or timer / event) to the next.                        *)
(***************************************************************************)
EXTENDS Integers, Sequences, FiniteSets, TLC

\* ---- bounds of the model -------------------------------------------------
MaxLocal  == 2    \* local note ids that crypto.randomUUID() may hand out
MaxRemote == 2    \* ids the remote store may assign (gen_random_uuid())
MaxMut    == 2    \* mutations ever enqueued
MaxTasks  == 2    \* async activations (performSync / flushQueue) alive at once
MaxTicks  == 2    \* clock advances
Horizon   == 2000000000  \* the clock stops here (32-bit integers)
MaxQueue  == 2    \* entries of syncQueue
MaxTimers == 2    \* pending setTimeout callbacks
MaxEvents == 1    \* real-time events in flight
MaxChannels == 2  \* real-time channels counted
MaxCycles == 3    \* cycles counted by cyclesStarted

\* ---- program constants ----------------------------------------------------
SYNC_COOLDOWN       == 5000                      \* sync.ts:13
USER_CACHE_DURATION == 300000                    \* sync.ts:7
FollowUpDelay       == 1000                      \* sync.ts:90
FlushBatchSize      == 10                        \* sync.ts:106
PullBatchSize       == 20                        \* sync.ts:185
PullLimit           == 100                       \* sync.ts:175
RetentionMs         == 7 * 24 * 60 * 60 * 1000   \* db.ts:131-132
StartTime           == 200 * SYNC_COOLDOWN       \* Date.now() when the app starts

NoUser   == "none"
Users    == {"u1"}
Contents == {<<"A", "x">>, <<"B", "y">>}         \* <<title, body>> a user may type

LocalIds  == 1..MaxLocal
RemoteIds == 1..MaxRemote
TaskIds   == 1..MaxTasks

VARIABLES
  now, ticks,            \* Date.now(), and how often it advanced
  online,                \* navigator.onLine / the network is reachable
  authUser,              \* the user supabase.auth currently reports
  notes,                 \* db.notes: local id -> Note
  noteCache,             \* db.ts noteCache: local id -> Note
  mutations,             \* db.mutations: set of Mutation records
  nextMut,               \* the ++id auto-increment of db.mutations
  nextLocal,             \* next crypto.randomUUID() (local ids)
  editing,               \* App's `editing` state: the note open in the editor
  remote,                \* the remote notes table: remote id -> row
  nextRemote,            \* next gen_random_uuid()
  userIdCache, userIdCacheTime,
  isSyncing, syncQueue, lastSyncTime,
  timers,                \* pending setTimeout callbacks that call performSync
  tasks,                 \* live activations of performSync / flushQueue
  realtimeSubscription,  \* TRUE when the module holds a channel (not null)
  isRealtimeEnabled,
  channels,              \* number of channels created and not removed
  rtEvents,              \* postgres_changes events on their way to the client
  cyclesStarted          \* performSync executions that passed the guard

vars == <<now, ticks, online, authUser, notes, noteCache, mutations, nextMut,
          nextLocal, editing, remote, nextRemote, userIdCache, userIdCacheTime,
          isSyncing, syncQueue, lastSyncTime, timers, tasks,
          realtimeSubscription, isRealtimeEnabled, channels,
          rtEvents, cyclesStarted>>

\* ---- records ---------------------------------------------------------------
\* db.ts Note; rid = 0 is "remote_id absent", uid = NoUser is "user_id absent",
\* ts is updated_at and created is created_at.
NilNote == [id |-> 0, rid |-> 0, title |-> "", body |-> "", ts |-> 0,
            created |-> 0, uid |-> NoUser, dirty |-> FALSE, deleted |-> FALSE]

NilRow == [id |-> 0, title |-> "", body |-> "", ts |-> 0, created |-> 0,
           uid |-> NoUser]

IdleTask == [kind |-> "none", pc |-> "idle", user |-> NoUser, toSend |-> <<>>,
             i |-> 0, op |-> "none", note |-> NilNote, res |-> 0,
             data |-> <<>>, off |-> 0, upd |-> <<>>, found |-> <<>>]

\* sync.ts newLocalNote
newLocalNote(id, t) ==
  [id |-> id, rid |-> 0, title |-> "", body |-> "", ts |-> t, created |-> t,
   uid |-> NoUser, dirty |-> TRUE, deleted |-> FALSE]

\* ---- sequences --------------------------------------------------------------
Range(s) == {s[k] : k \in 1..Len(s)}

Min(a, b) == IF a < b THEN a ELSE b

RECURSIVE OrderByTs(_)
\* db.mutations.orderBy('ts').toArray(): by ts, equal ts by primary key
OrderByTs(S) ==
  IF S = {} THEN <<>>
  ELSE LET m == CHOOSE x \in S : \A y \in S :
                  x.ts < y.ts \/ (x.ts = y.ts /\ x.id <= y.id)
       IN <<m>> \o OrderByTs(S \ {m})

RECURSIVE OrderByUpdatedDesc(_)
\* .order('updated_at', { ascending: false }): newest first
OrderByUpdatedDesc(S) ==
  IF S = {} THEN <<>>
  ELSE LET r == CHOOSE x \in S : \A y \in S :
                  x.ts > y.ts \/ (x.ts = y.ts /\ x.id <= y.id)
       IN <<r>> \o OrderByUpdatedDesc(S \ {r})

\* ---- local store (db.ts) ------------------------------------------------------
\* a put that purges the record when the note is a tombstone
PutPurges(ns, note) ==
  IF note.deleted THEN [k \in (DOMAIN ns) \ {note.id} |-> ns[k]]
  ELSE [k \in (DOMAIN ns) \cup {note.id} |-> IF k = note.id THEN note ELSE ns[k]]

\* db.notes.put(note)
Put(ns, note) == [k \in (DOMAIN ns) \cup {note.id} |-> IF k = note.id THEN note ELSE ns[k]]

\* Map.delete(id) on noteCache
Evict(cache, id) == [k \in (DOMAIN cache) \ {id} |-> cache[k]]

\* db.updateNote skipping the write whenever a record with the id exists
UpdateSkipsExisting(ns, note) == note.id \in DOMAIN ns

\* db.updateNote's test "exists with same content": the write is skipped
UpdateSkips(ns, note) ==
  /\ note.id \in DOMAIN ns
  /\ ns[note.id].title = note.title
  /\ ns[note.id].body = note.body
  /\ ns[note.id].ts = note.ts

\* db.updateNote(note): the notes table afterwards
UpdateNoteNotes(ns, note) == IF UpdateSkips(ns, note) THEN ns ELSE Put(ns, note)

\* db.updateNote(note): noteCache afterwards (invalidated only when written)
UpdateNoteCache(ns, cache, note) ==
  IF UpdateSkips(ns, note) THEN cache ELSE Evict(cache, note.id)

\* flushQueue without its `if (!note)` test: every lookup counts as found
HasNoteAlways(ns, cache, id) == TRUE

\* db.getNote(id) finds a record (cached, else stored)
HasNote(ns, cache, id) == id \in DOMAIN cache \/ id \in DOMAIN ns

\* db.getNote(id): the cached record wins over the stored one
GetNote(ns, cache, id) ==
  IF id \in DOMAIN cache THEN cache[id]
  ELSE IF id \in DOMAIN ns THEN ns[id] ELSE NilNote

\* db.getNote(id): noteCache afterwards (a found record is cached)
GetNoteCache(ns, cache, id) ==
  IF id \in DOMAIN cache \/ id \notin DOMAIN ns THEN cache
  ELSE [k \in (DOMAIN cache) \cup {id} |-> IF k = id THEN ns[id] ELSE cache[k]]

RECURSIVE BulkPut(_, _)
\* db.notes.bulkPut(list)
BulkPut(ns, list) ==
  IF list = <<>> THEN ns ELSE BulkPut(Put(ns, Head(list)), Tail(list))

\* db.batchUpdateNotes(list): noteCache afterwards
BatchCache(cache, list) ==
  [k \in (DOMAIN cache) \ {list[j].id : j \in 1..Len(list)} |-> cache[k]]

\* db.notes.where('remote_id').equals(rid).first(): lowest primary key
HasRemoteId(ns, rid) == \E k \in DOMAIN ns : ns[k].rid = rid

FindByRemoteId(ns, rid) ==
  ns[CHOOSE k \in DOMAIN ns : ns[k].rid = rid /\
        \A j \in DOMAIN ns : ns[j].rid = rid => k <= j]

\* db.cleanupOldMutations(7): mutations with ts below the cutoff are deleted
CleanupOldMutations(ms, t) == {m \in ms : ~(m.ts < t - RetentionMs)}

\* ---- identity (sync.ts getUserId) -----------------------------------------------
UserCacheValid ==
  userIdCache # NoUser /\ (now - userIdCacheTime) < USER_CACHE_DURATION

\* what supabase.auth.getUser() reports: nothing without a network
AuthReport(on) == IF on THEN authUser ELSE NoUser

\* getUserId() returning the signed-in user without asking the auth service
GetUserIdSession(on) == IF UserCacheValid THEN userIdCache ELSE authUser

\* getUserId()'s result, `on` being whether the network is reachable
GetUserId(on) == IF UserCacheValid THEN userIdCache ELSE AuthReport(on)

\* getUserId()'s effect on the cache
GetUserIdCaches(on) ==
  IF UserCacheValid \/ AuthReport(on) = NoUser
  THEN UNCHANGED <<userIdCache, userIdCacheTime>>
  ELSE userIdCache' = AuthReport(on) /\ userIdCacheTime' = now

\* ---- remote store (the supabase adapter, as the code relies on it) -----------------
\* rows a select returns under row level security (auth.uid() = user_id)
VisibleRows == {remote[r] : r \in {q \in DOMAIN remote : remote[q].uid = authUser}}

\* supabase.from('notes').select('*').order(...).limit(100)
ListNotes ==
  LET all == OrderByUpdatedDesc(VisibleRows)
  IN SubSeq(all, 1, Min(Len(all), PullLimit))

\* .upsert({id, ...}): the id the row gets (a fresh one when id is undefined)
UpsertId(rid) == IF rid = 0 THEN nextRemote ELSE rid

\* .upsert(...): the table afterwards
RemoteUpsert(rm, rid, note, user) ==
  LET id == UpsertId(rid)
      row == [id |-> id, title |-> note.title, body |-> note.body,
              ts |-> note.ts, created |-> note.created, uid |-> user]
  IN [k \in (DOMAIN rm) \cup {id} |-> IF k = id THEN row ELSE rm[k]]

\* .delete().eq('id', rid): only rows the session owns are deleted
RemoteDelete(rm, rid) ==
  IF rid \in DOMAIN rm /\ rm[rid].uid = authUser
  THEN [k \in (DOMAIN rm) \ {rid} |-> rm[k]]
  ELSE rm

\* the postgres_changes event of a change, once a channel is SUBSCRIBED
Emit(evs, type, row) ==
  IF channels > 0 /\ isRealtimeEnabled /\ Len(evs) < MaxEvents
  THEN Append(evs, [type |-> type, row |-> row])
  ELSE evs

\* ---- engine state touched by the triggers ------------------------------------------
Eng == [isSyncing |-> isSyncing, tasks |-> tasks, timers |-> timers,
        syncQueue |-> syncQueue, cyc |-> cyclesStarted, ok |-> TRUE]

Commit(E) ==
  /\ E.ok
  /\ isSyncing' = E.isSyncing
  /\ tasks' = E.tasks
  /\ timers' = E.timers
  /\ syncQueue' = E.syncQueue
  /\ cyclesStarted' = E.cyc

\* a performSync that calls pullRemote without awaiting flushQueue
SpawnPulls(E, kind) ==
  IF \A k \in TaskIds : E.tasks[k].kind # "none"
  THEN [E EXCEPT !.ok = FALSE]
  ELSE LET k == CHOOSE j \in TaskIds : E.tasks[j].kind = "none" /\
                     \A h \in TaskIds : E.tasks[h].kind = "none" => j <= h
       IN [E EXCEPT !.tasks[k] =
             [IdleTask EXCEPT !.kind = kind,
                              !.pc = IF kind = "cycle" THEN "pull" ELSE "fstart"]]

\* a new activation of an async function, in the lowest free slot
Spawn(E, kind) ==
  IF \A k \in TaskIds : E.tasks[k].kind # "none"
  THEN [E EXCEPT !.ok = FALSE]
  ELSE LET k == CHOOSE j \in TaskIds : E.tasks[j].kind = "none" /\
                     \A h \in TaskIds : E.tasks[h].kind = "none" => j <= h
       IN [E EXCEPT !.tasks[k] = [IdleTask EXCEPT !.kind = kind, !.pc = "fstart"]]

\* setTimeout(cb, delay): the pending callbacks, earliest first
RECURSIVE InsertTimer(_, _)
InsertTimer(ts, due) ==
  IF ts = <<>> THEN <<due>>
  ELSE IF due <= Head(ts) THEN <<due>> \o ts
  ELSE <<Head(ts)>> \o InsertTimer(Tail(ts), due)

SetTimeout(E, delay) ==
  IF Len(E.timers) >= MaxTimers THEN [E EXCEPT !.ok = FALSE]
  ELSE [E EXCEPT !.timers = InsertTimer(@, now + delay)]

\* cyclesStarted counts up to MaxCycles; a negative value is "not counting"
Counted(c) == IF c < 0 THEN c ELSE Min(c + 1, MaxCycles)

\* sync.ts performSync, up to its first await: the guard and isSyncing = true
PerformSyncUnguarded(E) ==
  [Spawn(E, "cycle") EXCEPT !.isSyncing = TRUE, !.cyc = Counted(@)]

PerformSync(E) == IF E.isSyncing THEN E ELSE PerformSyncUnguarded(E)

\* scheduleSync without the timer of lines 64-67: a request made during the
\* cooldown is dropped
ScheduleSyncDrops(E) ==
  IF now - lastSyncTime < SYNC_COOLDOWN THEN E ELSE PerformSync(E)

\* sync.ts scheduleSync
ScheduleSync(E) ==
  IF now - lastSyncTime < SYNC_COOLDOWN
  THEN SetTimeout(E, SYNC_COOLDOWN - (now - lastSyncTime))
  ELSE PerformSync(E)

\* sync.ts queueMutation, after db.mutations.add
QueueMutationTrigger(E) == IF ~E.isSyncing THEN ScheduleSync(E) ELSE E

\* sync.ts 'app-sync-pending' and 'online' listeners: run now, or queue
RequestSync(E) ==
  IF ~E.isSyncing THEN PerformSync(E)
  ELSE IF E.syncQueue >= MaxQueue THEN [E EXCEPT !.ok = FALSE]
  ELSE [E EXCEPT !.syncQueue = @ + 1]

\* performSync's finally block
Finally(E, t) ==
  LET E1 == [E EXCEPT !.isSyncing = FALSE, !.tasks[t] = IdleTask]
  IN IF E1.syncQueue > 0
     THEN SetTimeout([E1 EXCEPT !.syncQueue = @ - 1], FollowUpDelay)
     ELSE E1

\* db.mutations.add(m)
AddMutation(type, noteId) ==
  /\ nextMut <= MaxMut
  /\ mutations' = mutations \cup
        {[id |-> nextMut, type |-> type, noteId |-> noteId, ts |-> now]}
  /\ nextMut' = nextMut + 1

\* ---- initial state -------------------------------------------------------------------
Init ==
  /\ now = StartTime /\ ticks = 0
  /\ online = TRUE
  /\ authUser = "u1"
  /\ notes = <<>> /\ noteCache = <<>>
  /\ mutations = {} /\ nextMut = 1 /\ nextLocal = 1
  /\ editing = NilNote
  /\ remote = <<>> /\ nextRemote = 1
  /\ userIdCache = NoUser /\ userIdCacheTime = 0
  /\ isSyncing = FALSE /\ syncQueue = 0 /\ lastSyncTime = 0
  /\ timers = <<>>
  /\ tasks = [t \in TaskIds |-> IdleTask]
  /\ realtimeSubscription = FALSE /\ isRealtimeEnabled = FALSE
  /\ channels = 0
  /\ rtEvents = <<>>
  /\ cyclesStarted = -1

envVars    == <<now, ticks, online, authUser>>
storeVars  == <<notes, noteCache, mutations, nextMut, nextLocal>>
remoteVars == <<remote, nextRemote, rtEvents>>
idVars     == <<userIdCache, userIdCacheTime>>
engVars    == <<isSyncing, syncQueue, timers, tasks, cyclesStarted>>
rtVars     == <<realtimeSubscription, isRealtimeEnabled, channels>>

\* ---- the UI's operations (App.tsx) ------------------------------------------------------
\* App.createNote: a draft opens in the editor
CreateNote ==
  /\ editing = NilNote
  /\ nextLocal <= MaxLocal
  /\ editing' = newLocalNote(nextLocal, now)
  /\ nextLocal' = nextLocal + 1
  /\ UNCHANGED <<envVars, notes, noteCache, mutations, nextMut, remoteVars,
                 idVars, engVars, lastSyncTime, rtVars>>

\* NoteCard onEdit: a listed (non-deleted) note opens in the editor
OpenEditor(id) ==
  /\ editing = NilNote
  /\ id \in DOMAIN notes
  /\ ~notes[id].deleted
  /\ editing' = notes[id]
  /\ UNCHANGED <<envVars, storeVars, remoteVars, idVars, engVars,
                 lastSyncTime, rtVars>>

\* NoteEditor.handleSave and App.saveNote: upsertNoteLocal, queueMutation and
\* the call of flushQueue
SaveNote(c) ==
  /\ editing # NilNote
  /\ LET n == [editing EXCEPT !.title = c[1], !.body = c[2],
                              !.ts = now, !.dirty = TRUE]
     IN /\ notes' = UpdateNoteNotes(notes, n)
        /\ noteCache' = UpdateNoteCache(notes, noteCache, n)
        /\ AddMutation("upsert", n.id)
  /\ Commit(Spawn(QueueMutationTrigger(Eng), "flush"))
  /\ editing' = NilNote
  /\ UNCHANGED <<envVars, nextLocal, remoteVars, idVars, lastSyncTime, rtVars>>

\* App.deleteNote: a direct db.notes.put of the tombstone, then queueMutation
DeleteNote(id) ==
  /\ id \in DOMAIN notes
  /\ ~notes[id].deleted
  /\ notes' = Put(notes, [notes[id] EXCEPT !.deleted = TRUE, !.dirty = TRUE,
                                           !.ts = now])
  /\ AddMutation("delete", id)
  /\ Commit(QueueMutationTrigger(Eng))
  /\ UNCHANGED <<envVars, noteCache, nextLocal, editing, remoteVars, idVars,
                 lastSyncTime, rtVars>>

\* db.getNote's setTimeout(() => noteCache.delete(id), cacheTimeout)
CacheExpire(id) ==
  /\ id \in DOMAIN noteCache
  /\ noteCache' = Evict(noteCache, id)
  /\ UNCHANGED <<envVars, notes, mutations, nextMut, nextLocal, editing,
                 remoteVars, idVars, engVars, lastSyncTime, rtVars>>

\* ---- flushQueue (sync.ts 96-159) ----------------------------------------------------------
\* the state of an activation once flushQueue has returned: a performSync
\* goes on to pullRemote, a direct call is over
FlushReturned(tk) ==
  IF tk.kind = "cycle"
  THEN [IdleTask EXCEPT !.kind = "cycle", !.pc = "pull"]
  ELSE IdleTask

\* the for loops of flushQueue: on to mutation j, or out of the loops
FlushLoop(tk, j) ==
  IF j > Len(tk.toSend) THEN FlushReturned(tk)
  ELSE [tk EXCEPT !.pc = "fnext", !.i = j, !.op = "none", !.note = NilNote,
                  !.res = 0]

\* `break`: the inner loop ends, the outer one goes on with the next batch
FlushBreak(tk) ==
  FlushLoop(tk, (((tk.i - 1) \div FlushBatchSize) + 1) * FlushBatchSize + 1)

\* lines 97-101: getUserId, then the queue is read
FlushBegin(t) ==
  /\ tasks[t].pc = "fstart"
  /\ GetUserIdCaches(online)
  /\ tasks' = [tasks EXCEPT ![t] =
        IF GetUserId(online) = NoUser THEN FlushReturned(@)
        ELSE FlushLoop([@ EXCEPT !.user = GetUserId(online),
                                 !.toSend = OrderByTs(mutations)], 1)]
  /\ UNCHANGED <<envVars, storeVars, editing, remoteVars, isSyncing, syncQueue,
                 timers, cyclesStarted, lastSyncTime, rtVars>>

\* lines 110-149 up to the remote call: the note is read; a mutation that
\* needs no remote call is completed, otherwise the request goes out
FlushNext(t) ==
  LET tk   == tasks[t]
      m    == tk.toSend[tk.i]
      has  == HasNote(notes, noteCache, m.noteId)
      note == GetNote(notes, noteCache, m.noteId)
      c1   == GetNoteCache(notes, noteCache, m.noteId)
      ack  == {x \in mutations : x.id # m.id}
      sent(op, res) == [tk EXCEPT !.pc = "fresp", !.op = op, !.note = note,
                                  !.res = res]
  IN
  /\ tk.pc = "fnext"
  /\ IF m.type = "upsert" /\ ~has THEN
        \* line 114-117: the note is gone, the mutation is dropped
        /\ mutations' = ack
        /\ tasks' = [tasks EXCEPT ![t] = FlushLoop(tk, tk.i + 1)]
        /\ UNCHANGED <<notes, noteCache, remoteVars>>
     ELSE IF m.type = "upsert" /\ note.deleted /\ note.rid = 0 THEN
        \* line 119-128 with no remote id: nothing to send
        /\ mutations' = ack
        /\ noteCache' = c1
        /\ tasks' = [tasks EXCEPT ![t] = FlushLoop(tk, tk.i + 1)]
        /\ UNCHANGED <<notes, remoteVars>>
     ELSE IF m.type = "upsert" /\ note.deleted THEN
        \* line 123: remote delete of a tombstoned note
        /\ noteCache' = c1
        /\ remote' = IF online THEN RemoteDelete(remote, note.rid) ELSE remote
        /\ rtEvents' = IF remote' # remote
                       THEN Emit(rtEvents, "DELETE", remote[note.rid])
                       ELSE rtEvents
        /\ tasks' = [tasks EXCEPT ![t] = sent("tomb", IF online THEN 1 ELSE 0)]
        /\ UNCHANGED <<notes, mutations, nextRemote>>
     ELSE IF m.type = "upsert" THEN
        \* line 130-137: remote upsert keyed by remote_id
        LET ok == online /\ tk.user = authUser
            id == UpsertId(note.rid)
        IN /\ ok /\ note.rid = 0 => nextRemote <= MaxRemote
           /\ noteCache' = c1
           /\ remote' = IF ok THEN RemoteUpsert(remote, note.rid, note, tk.user)
                        ELSE remote
           /\ nextRemote' = IF ok /\ note.rid = 0 THEN nextRemote + 1
                            ELSE nextRemote
           /\ rtEvents' = IF ~ok THEN rtEvents
                          ELSE Emit(rtEvents,
                                    IF id \in DOMAIN remote THEN "UPDATE"
                                    ELSE "INSERT", remote'[id])
           /\ tasks' = [tasks EXCEPT ![t] = sent("upsert", IF ok THEN id ELSE 0)]
           /\ UNCHANGED <<notes, mutations>>
     ELSE IF has /\ note.rid # 0 THEN
        \* line 145: remote delete for a delete mutation
        /\ noteCache' = c1
        /\ remote' = IF online THEN RemoteDelete(remote, note.rid) ELSE remote
        /\ rtEvents' = IF remote' # remote
                       THEN Emit(rtEvents, "DELETE", remote[note.rid])
                       ELSE rtEvents
        /\ tasks' = [tasks EXCEPT ![t] = sent("delete", IF online THEN 1 ELSE 0)]
        /\ UNCHANGED <<notes, mutations, nextRemote>>
     ELSE IF has THEN
        \* line 149-151 without a remote id
        LET w == [note EXCEPT !.deleted = TRUE, !.dirty = FALSE]
        IN /\ notes' = UpdateNoteNotes(notes, w)
           /\ noteCache' = UpdateNoteCache(notes, c1, w)
           /\ mutations' = ack
           /\ tasks' = [tasks EXCEPT ![t] = FlushLoop(tk, tk.i + 1)]
           /\ UNCHANGED remoteVars
     ELSE
        \* line 149 with note undefined: updateNote has no key and throws
        /\ tasks' = [tasks EXCEPT ![t] = FlushBreak(tk)]
        /\ UNCHANGED <<notes, noteCache, mutations, remoteVars>>
  /\ UNCHANGED <<envVars, nextMut, nextLocal, editing, idVars, isSyncing,
                 syncQueue, timers, cyclesStarted, lastSyncTime, rtVars>>

\* lines 124-151 after the remote call has answered
FlushResp(t) ==
  LET tk   == tasks[t]
      m    == tk.toSend[tk.i]
      note == tk.note
      ack  == {x \in mutations : x.id # m.id}
      w    == IF tk.op = "tomb" THEN [note EXCEPT !.dirty = FALSE]
              ELSE IF tk.op = "upsert"
              THEN [note EXCEPT !.rid = tk.res, !.uid = tk.user, !.dirty = FALSE]
              ELSE [note EXCEPT !.deleted = TRUE, !.dirty = FALSE]
  IN
  /\ tk.pc = "fresp"
  /\ IF tk.res = 0 /\ tk.op # "tomb" THEN
        \* `if (error) throw error`, caught by line 152: break
        /\ tasks' = [tasks EXCEPT ![t] = FlushBreak(tk)]
        /\ UNCHANGED <<notes, noteCache, mutations>>
     ELSE
        /\ notes' = IF tk.res = 0 THEN notes ELSE UpdateNoteNotes(notes, w)
        /\ noteCache' = IF tk.res = 0 THEN noteCache
                        ELSE UpdateNoteCache(notes, noteCache, w)
        /\ mutations' = ack
        /\ tasks' = [tasks EXCEPT ![t] = FlushLoop(tk, tk.i + 1)]
  /\ UNCHANGED <<envVars, nextMut, nextLocal, editing, remoteVars, idVars,
                 isSyncing, syncQueue, timers, cyclesStarted, lastSyncTime,
                 rtVars>>

\* ---- pullRemote (sync.ts 161-218) -----------------------------------------------------------
\* line 192 without the comparison: every row is applied
LocalNewerNever(existing, r) == FALSE

\* line 192: `existing && existing.updated_at > r.updated_at`
LocalNewer(existing, r) == existing.ts > r.ts

\* lines 195-205: the record pullRemote writes for remote row r
Pulled(id, r) ==
  [id |-> id, rid |-> r.id, title |-> r.title, body |-> r.body, ts |-> r.ts,
   created |-> r.created, uid |-> r.uid, dirty |-> FALSE, deleted |-> FALSE]

RECURSIVE MergeBatch(_, _, _)
\* lines 190-207: notesToUpdate for a batch, fresh local ids from nid on
MergeBatch(ns, batch, nid) ==
  IF batch = <<>> THEN <<>>
  ELSE LET r  == Head(batch)
           ex == HasRemoteId(ns, r.id)
       IN IF ex /\ LocalNewer(FindByRemoteId(ns, r.id), r)
          THEN MergeBatch(ns, Tail(batch), nid)
          ELSE IF ex
          THEN <<Pulled(FindByRemoteId(ns, r.id).id, r)>>
                 \o MergeBatch(ns, Tail(batch), nid)
          ELSE <<Pulled(nid, r)>> \o MergeBatch(ns, Tail(batch), nid + 1)

\* line 191 for every row of a batch: the local notes found (NilNote: none)
Lookups(ns, batch) ==
  [j \in 1..Len(batch) |->
     IF HasRemoteId(ns, batch[j].id) THEN FindByRemoteId(ns, batch[j].id)
     ELSE NilNote]

\* the rows of the batch that starts after `off`
BatchAt(data, off) == SubSeq(data, off + 1, Min(off + PullBatchSize, Len(data)))

\* performSync without its catch and finally blocks: an error leaves the
\* function at once
CycleEndsThrows(t, ok) ==
  /\ lastSyncTime' = IF ok THEN now ELSE lastSyncTime
  /\ Commit(IF ok THEN Finally(Eng, t) ELSE [Eng EXCEPT !.tasks[t] = IdleTask])

\* performSync lines 80-93 once pullRemote has returned (ok) or thrown
CycleEnds(t, ok) ==
  /\ lastSyncTime' = IF ok THEN now ELSE lastSyncTime
  /\ Commit(Finally(Eng, t))

\* lines 162-182: getUserId and the remote select
PullFetch(t) ==
  /\ tasks[t].pc = "pull"
  /\ GetUserIdCaches(online)
  /\ IF GetUserId(online) = NoUser THEN CycleEnds(t, TRUE)
     ELSE IF ~online THEN CycleEnds(t, FALSE)
     ELSE IF ListNotes = <<>> THEN CycleEnds(t, TRUE)
     ELSE /\ tasks' = [tasks EXCEPT ![t] =
                 [@ EXCEPT !.pc = "merge", !.user = GetUserId(online),
                           !.data = ListNotes, !.off = 0]]
          /\ UNCHANGED <<isSyncing, syncQueue, timers, cyclesStarted,
                         lastSyncTime>>
  /\ UNCHANGED <<envVars, storeVars, editing, remoteVars, rtVars>>

\* lines 186-207: the lookups of one batch
PullMerge(t) ==
  LET tk    == tasks[t]
      batch == BatchAt(tk.data, tk.off)
      upd   == MergeBatch(notes, batch, nextLocal)
      fresh == Cardinality({j \in 1..Len(upd) : upd[j].id >= nextLocal})
  IN
  /\ tk.pc = "merge"
  /\ nextLocal + fresh <= MaxLocal + 1
  /\ nextLocal' = nextLocal + fresh
  /\ tasks' = [tasks EXCEPT ![t] =
        [@ EXCEPT !.pc = "write", !.upd = upd, !.found = Lookups(notes, batch)]]
  /\ UNCHANGED <<envVars, notes, noteCache, mutations, nextMut, editing,
                 remoteVars, idVars, isSyncing, syncQueue, timers,
                 cyclesStarted, lastSyncTime, rtVars>>

\* lines 209-212: db.batchUpdateNotes, then the next batch or the end
PullWrite(t) ==
  LET tk == tasks[t]
  IN
  /\ tk.pc = "write"
  /\ notes' = BulkPut(notes, tk.upd)
  /\ noteCache' = BatchCache(noteCache, tk.upd)
  /\ IF tk.off + PullBatchSize < Len(tk.data)
     THEN /\ tasks' = [tasks EXCEPT ![t] =
                 [@ EXCEPT !.pc = "merge", !.off = @ + PullBatchSize,
                           !.upd = <<>>, !.found = <<>>]]
          /\ UNCHANGED <<isSyncing, syncQueue, timers, cyclesStarted,
                         lastSyncTime>>
     ELSE CycleEnds(t, TRUE)
  /\ UNCHANGED <<envVars, mutations, nextMut, nextLocal, editing, remoteVars,
                 idVars, rtVars>>

\* ---- real-time subscription (sync.ts 221-322) --------------------------------------------------
\* setupRealtimeSubscription: a channel is created and held; one that was
\* held and not removed stays alive
SetupRealtimeSubscription(on) ==
  /\ GetUserIdCaches(on)
  /\ IF GetUserId(on) = NoUser \/ isRealtimeEnabled THEN UNCHANGED rtVars
     ELSE /\ channels' = Min(channels + 1, MaxChannels)
          /\ realtimeSubscription' = TRUE
          /\ UNCHANGED isRealtimeEnabled

\* cleanupRealtimeSubscription
CleanupRealtimeSubscription ==
  IF realtimeSubscription
  THEN /\ channels' = IF channels > 0 THEN channels - 1 ELSE 0
       /\ realtimeSubscription' = FALSE
       /\ isRealtimeEnabled' = FALSE
  ELSE UNCHANGED rtVars

\* the .subscribe callback (line 254-257): SUBSCRIBED once the socket has
\* joined, CLOSED or TIMED_OUT without a network
SubscribeStatus ==
  /\ channels > 0
  /\ isRealtimeEnabled # online
  /\ isRealtimeEnabled' = online
  /\ UNCHANGED <<envVars, storeVars, editing, remoteVars, idVars, engVars,
                 lastSyncTime, realtimeSubscription, channels>>

\* line 288 with `<=` for `<`
RemoteNewerOrEqual(existing, r) == existing.ts <= r.ts

\* line 288: `existing.updated_at < updatedNote.updated_at`
RemoteNewer(existing, r) == existing.ts < r.ts

\* handleRemoteInsert: the note it passes to db.updateNote
InsertedNote(id, r) == Pulled(id, r)

\* handleRemoteUpdate: the note it passes to db.updateNote
UpdatedNote(existing, r) ==
  [existing EXCEPT !.title = r.title, !.body = r.body, !.ts = r.ts,
                   !.dirty = FALSE]

\* the postgres_changes callback (lines 238-252) for the oldest event
RtDeliver ==
  /\ rtEvents # <<>>
  /\ LET ev == Head(rtEvents)
         r  == ev.row
         ex == HasRemoteId(notes, r.id)
         w  == IF ev.type = "INSERT" THEN InsertedNote(nextLocal, r)
               ELSE IF ev.type = "UPDATE"
               THEN UpdatedNote(FindByRemoteId(notes, r.id), r)
               ELSE [FindByRemoteId(notes, r.id) EXCEPT !.deleted = TRUE,
                                                        !.dirty = FALSE]
         writes == IF ev.type = "INSERT" THEN ~ex
                   ELSE IF ev.type = "UPDATE"
                   THEN ex /\ RemoteNewer(FindByRemoteId(notes, r.id), r)
                   ELSE ex
     IN /\ writes /\ ev.type = "INSERT" => nextLocal <= MaxLocal
        /\ notes' = IF writes THEN UpdateNoteNotes(notes, w) ELSE notes
        /\ noteCache' = IF writes THEN UpdateNoteCache(notes, noteCache, w)
                        ELSE noteCache
        /\ nextLocal' = IF writes /\ ev.type = "INSERT" THEN nextLocal + 1
                        ELSE nextLocal
  /\ rtEvents' = Tail(rtEvents)
  /\ UNCHANGED <<envVars, mutations, nextMut, editing, remote, nextRemote,
                 idVars, engVars, lastSyncTime, rtVars>>

\* ---- triggers (sync.ts 324-390, App.tsx 92-166) ---------------------------------------------------
\* a setTimeout callback that is due: scheduleSync's `if (!isSyncing)
\* performSync()` or the finally block's nextSync
TimerFire(k) ==
  /\ k \in 1..Len(timers)
  /\ timers[k] <= now
  /\ Commit(PerformSync([Eng EXCEPT !.timers =
        SubSeq(timers, 1, k - 1) \o SubSeq(timers, k + 1, Len(timers))]))
  /\ UNCHANGED <<envVars, storeVars, editing, remoteVars, idVars, lastSyncTime,
                 rtVars>>

\* the 'app-sync-pending' listener (the service worker's SYNC_PENDING)
AppSyncPending ==
  /\ Commit(RequestSync(Eng))
  /\ UNCHANGED <<envVars, storeVars, editing, remoteVars, idVars, lastSyncTime,
                 rtVars>>

\* connectivity returns: the 'online' listener of sync.ts, then App's
\* handleOnline, which calls flushQueue itself
GoOnline ==
  /\ ~online
  /\ online' = TRUE
  /\ Commit(Spawn(RequestSync(Eng), "flush"))
  /\ SetupRealtimeSubscription(TRUE)
  /\ UNCHANGED <<now, ticks, authUser, storeVars, editing, remoteVars,
                 lastSyncTime>>

\* connectivity is lost: sync.ts has no 'offline' listener, App's
\* handleOffline touches UI state only
GoOffline ==
  /\ online
  /\ online' = FALSE
  /\ UNCHANGED <<now, ticks, authUser, storeVars, editing, remoteVars, idVars,
                 engVars, lastSyncTime, rtVars>>

\* the 'online-status-change' listener (the service worker's ONLINE_STATUS)
OnlineStatusChange ==
  /\ IF online /\ ~isSyncing
     THEN /\ Commit(PerformSync(Eng))
          /\ SetupRealtimeSubscription(TRUE)
     ELSE IF ~online
     THEN /\ CleanupRealtimeSubscription
          /\ UNCHANGED <<idVars, engVars>>
     ELSE UNCHANGED <<idVars, engVars, rtVars>>
  /\ UNCHANGED <<envVars, storeVars, editing, remoteVars, lastSyncTime>>

\* App's 30 s setInterval: `if (navigator.onLine) ... if (!stats.isSyncing)
\* performSync()`
PeriodicSync ==
  /\ online
  /\ ~isSyncing
  /\ Commit(PerformSync(Eng))
  /\ UNCHANGED <<envVars, storeVars, editing, remoteVars, idVars, lastSyncTime,
                 rtVars>>

\* initSync: initializeDatabase (the purge), setupRealtimeSubscription,
\* performSync
InitSync ==
  /\ mutations' = CleanupOldMutations(mutations, now)
  /\ SetupRealtimeSubscription(online)
  /\ Commit(PerformSync(Eng))
  /\ UNCHANGED <<envVars, notes, noteCache, nextMut, nextLocal, editing,
                 remoteVars, lastSyncTime>>

\* syncWithRetry (lines 336-350): attempt 1 awaits performSync. The promise
\* performSync returns is never rejected (its catch block at lines 81-83
\* swallows the error, see CycleEnds), so line 340 returns after the first
\* attempt and the catch block of lines 341-348 starts nothing
SyncWithRetry ==
  /\ Commit(PerformSync(Eng))
  /\ UNCHANGED <<envVars, storeVars, editing, remoteVars, idVars, lastSyncTime,
                 rtVars>>

\* ---- environment ---------------------------------------------------------------------------------
\* the clock advances by d ms
Tick(d) ==
  /\ ticks < MaxTicks
  /\ now <= Horizon - d
  /\ now' = now + d
  /\ ticks' = ticks + 1
  /\ UNCHANGED <<online, authUser, storeVars, editing, remoteVars, idVars,
                 engVars, lastSyncTime, rtVars>>

TickMs       == Tick(1)
TickSecond   == Tick(FollowUpDelay)
TickCooldown == Tick(SYNC_COOLDOWN)
TickWeek     == Tick(RetentionMs + 1)

\* another device of the same user creates a note remotely
OtherInsert(c) ==
  /\ online
  /\ authUser # NoUser
  /\ nextRemote <= MaxRemote
  /\ remote' = RemoteUpsert(remote, 0,
                 [NilNote EXCEPT !.title = c[1], !.body = c[2], !.ts = now,
                                 !.created = now],
                 authUser)
  /\ nextRemote' = nextRemote + 1
  /\ rtEvents' = Emit(rtEvents, "INSERT", remote'[nextRemote])
  /\ UNCHANGED <<envVars, storeVars, editing, idVars, engVars, lastSyncTime,
                 rtVars>>

\* another device of the same user edits a remote note
OtherUpdate(rid, c) ==
  /\ online
  /\ rid \in DOMAIN remote
  /\ remote[rid].uid = authUser
  /\ remote' = RemoteUpsert(remote, rid,
                 [NilNote EXCEPT !.title = c[1], !.body = c[2], !.ts = now,
                                 !.created = remote[rid].created],
                 authUser)
  /\ remote' # remote
  /\ rtEvents' = Emit(rtEvents, "UPDATE", remote'[rid])
  /\ UNCHANGED <<envVars, storeVars, editing, nextRemote, idVars, engVars,
                 lastSyncTime, rtVars>>

\* another device of the same user deletes a remote note
OtherDelete(rid) ==
  /\ online
  /\ rid \in DOMAIN remote
  /\ remote[rid].uid = authUser
  /\ remote' = RemoteDelete(remote, rid)
  /\ rtEvents' = Emit(rtEvents, "DELETE", remote[rid])
  /\ UNCHANGED <<envVars, storeVars, editing, nextRemote, idVars, engVars,
                 lastSyncTime, rtVars>>

OtherContents == {<<"C", "z">>}

\* ---- specifications -----------------------------------------------------------------------------
Next ==
  \/ CreateNote
  \/ \E id \in LocalIds : OpenEditor(id)
  \/ \E c \in Contents : SaveNote(c)
  \/ \E id \in LocalIds : DeleteNote(id)
  \/ \E id \in LocalIds : CacheExpire(id)
  \/ \E t \in TaskIds : FlushBegin(t)
  \/ \E t \in TaskIds : FlushNext(t)
  \/ \E t \in TaskIds : FlushResp(t)
  \/ \E t \in TaskIds : PullFetch(t)
  \/ \E t \in TaskIds : PullMerge(t)
  \/ \E t \in TaskIds : PullWrite(t)
  \/ \E k \in 1..MaxTimers : TimerFire(k)
  \/ AppSyncPending
  \/ GoOnline
  \/ GoOffline
  \/ OnlineStatusChange
  \/ PeriodicSync
  \/ InitSync
  \/ SyncWithRetry
  \/ TickMs
  \/ TickSecond
  \/ TickCooldown
  \/ TickWeek
  \/ \E c \in OtherContents : OtherInsert(c)
  \/ \E rid \in RemoteIds, c \in OtherContents : OtherUpdate(rid, c)
  \/ \E rid \in RemoteIds : OtherDelete(rid)
  \/ SubscribeStatus
  \/ RtDeliver

Spec == Init /\ [][Next]_vars


\* ---- scenario bounds ------------------------------------------------------------------------------
\* The scenarios below explore the program up to these numbers of clock
\* advances, queued requests, pending timers, channels, remote rows and edits.
FewTicks    == 1
FewQueue    == 1
FewTimers   == 1
FewChannels == 1
FewRemote   == 1
FewCycles   == 1
FewEdits    == 1

\* the app has started offline with a draft open in the editor
InitDraft ==
  /\ now = StartTime /\ ticks = 0
  /\ online = FALSE
  /\ authUser = "u1"
  /\ notes = <<>> /\ noteCache = <<>>
  /\ mutations = {} /\ nextMut = 1 /\ nextLocal = 2
  /\ editing = newLocalNote(1, StartTime)
  /\ remote = <<>> /\ nextRemote = 1
  /\ userIdCache = NoUser /\ userIdCacheTime = 0
  /\ isSyncing = FALSE /\ syncQueue = 0 /\ lastSyncTime = 0
  /\ timers = <<>>
  /\ tasks = [t \in TaskIds |-> IdleTask]
  /\ realtimeSubscription = FALSE /\ isRealtimeEnabled = FALSE
  /\ channels = 0
  /\ rtEvents = <<>>
  /\ cyclesStarted = -1

\* the app is online and signed in with a draft open in the editor
InitPush ==
  /\ now = StartTime /\ ticks = 0
  /\ online = TRUE
  /\ authUser = "u1"
  /\ notes = <<>> /\ noteCache = <<>>
  /\ mutations = {} /\ nextMut = 1 /\ nextLocal = 2
  /\ editing = newLocalNote(1, StartTime)
  /\ remote = <<>> /\ nextRemote = 1
  /\ userIdCache = NoUser /\ userIdCacheTime = 0
  /\ isSyncing = FALSE /\ syncQueue = 0 /\ lastSyncTime = 0
  /\ timers = <<>>
  /\ tasks = [t \in TaskIds |-> IdleTask]
  /\ realtimeSubscription = FALSE /\ isRealtimeEnabled = FALSE
  /\ channels = 0
  /\ rtEvents = <<>>
  /\ cyclesStarted = -1

\* the app is online, signed in and idle, cyclesStarted counting from 0
InitCoalesce ==
  /\ now = StartTime /\ ticks = 0
  /\ online = TRUE
  /\ authUser = "u1"
  /\ notes = <<>> /\ noteCache = <<>>
  /\ mutations = {} /\ nextMut = 1 /\ nextLocal = 1
  /\ editing = NilNote
  /\ remote = <<>> /\ nextRemote = 1
  /\ userIdCache = NoUser /\ userIdCacheTime = 0
  /\ isSyncing = FALSE /\ syncQueue = 0 /\ lastSyncTime = 0
  /\ timers = <<>>
  /\ tasks = [t \in TaskIds |-> IdleTask]
  /\ realtimeSubscription = FALSE /\ isRealtimeEnabled = FALSE
  /\ channels = 0
  /\ rtEvents = <<>>
  /\ cyclesStarted = 0

\* the app is online, signed in and idle with an empty local store; another
\* device of the user has created remote note 1
InitPull ==
  /\ now = StartTime /\ ticks = 0
  /\ online = TRUE
  /\ authUser = "u1"
  /\ notes = <<>> /\ noteCache = <<>>
  /\ mutations = {} /\ nextMut = 1 /\ nextLocal = 1
  /\ editing = NilNote
  /\ remote = (1 :> [id |-> 1, title |-> "C", body |-> "z", ts |-> StartTime,
                     created |-> StartTime - 9, uid |-> "u1"])
  /\ nextRemote = 2
  /\ userIdCache = NoUser /\ userIdCacheTime = 0
  /\ isSyncing = FALSE /\ syncQueue = 0 /\ lastSyncTime = 0
  /\ timers = <<>>
  /\ tasks = [t \in TaskIds |-> IdleTask]
  /\ realtimeSubscription = FALSE /\ isRealtimeEnabled = FALSE
  /\ channels = 0
  /\ rtEvents = <<>>
  /\ cyclesStarted = -1

\* ---- C1: single flight ------------------------------------------------------------------------------
\* The app starts offline with a draft open; the draft is saved and every
\* trigger of a sync occurs in any order.
TrigWithin ==
  /\ ticks <= FewTicks
  /\ syncQueue <= FewQueue
  /\ Len(timers) <= FewTimers
  /\ channels <= FewChannels
  /\ nextRemote <= FewRemote + 1

NextTriggers ==
  \/ SaveNote(<<"A", "x">>) /\ TrigWithin'
  \/ (\E t \in TaskIds : FlushBegin(t)) /\ TrigWithin'
  \/ (\E t \in TaskIds : FlushNext(t)) /\ TrigWithin'
  \/ (\E t \in TaskIds : FlushResp(t)) /\ TrigWithin'
  \/ (\E t \in TaskIds : PullFetch(t)) /\ TrigWithin'
  \/ (\E t \in TaskIds : PullMerge(t)) /\ TrigWithin'
  \/ (\E t \in TaskIds : PullWrite(t)) /\ TrigWithin'
  \/ (\E k \in 1..MaxTimers : TimerFire(k)) /\ TrigWithin'
  \/ AppSyncPending /\ TrigWithin'
  \/ GoOnline /\ TrigWithin'
  \/ OnlineStatusChange /\ TrigWithin'
  \/ PeriodicSync /\ TrigWithin'
  \/ InitSync /\ TrigWithin'
  \/ SyncWithRetry /\ TrigWithin'
  \/ TickCooldown /\ TrigWithin'

SpecTriggers == InitDraft /\ [][NextTriggers]_vars

\* C1: at most one performSync cycle is between `isSyncing = true` and the
\* finally block at any time, and isSyncing is set exactly while one is.
SingleFlight ==
  /\ Cardinality({t \in TaskIds : tasks[t].kind = "cycle"}) <= 1
  /\ isSyncing <=> \E t \in TaskIds : tasks[t].kind = "cycle"

\* a request has been queued because a trigger called while a cycle was in
\* flight, next to a direct flushQueue of saveNote or handleOnline
SingleFlightWitness ==
  /\ \E t \in TaskIds : tasks[t].kind = "cycle" /\ tasks[t].pc = "fresp"
  /\ \E t \in TaskIds : tasks[t].kind = "flush"
  /\ syncQueue > 0

\* ---- C2: coalescing of requests that arrive while a cycle is in flight ---------------------------
\* One 'app-sync-pending' starts a cycle; further 'app-sync-pending' and
\* 'online' events arrive only while that cycle is in flight, and no other
\* trigger occurs.
FirstInFlight == cyclesStarted = 1 /\ isSyncing

NextCoalesce ==
  \/ cyclesStarted = 0 /\ AppSyncPending
  \/ FirstInFlight /\ AppSyncPending
  \/ FirstInFlight /\ GoOffline
  \/ FirstInFlight /\ GoOnline
  \/ \E t \in TaskIds : FlushBegin(t)
  \/ \E t \in TaskIds : PullFetch(t)
  \/ \E k \in 1..MaxTimers : TimerFire(k)
  \/ TickSecond

SpecCoalesce == InitCoalesce /\ [][NextCoalesce]_vars

\* C2: however many requests arrive while the first cycle is in flight, at
\* most 2 cycles run in total: the one in flight and one follow-up.
CoalescedCycles == cyclesStarted <= 2

\* ---- C3: edits made offline reach the remote store ----------------------------------------------
\* The app starts offline with a draft open. Notes are saved, reopened and
\* deleted only while offline; time passes; connectivity returns when nothing
\* is in flight and is not lost again, so every cycle that runs online has
\* all its remote calls succeed. initSync runs when the app is (re)started.
AllIdle == \A t \in TaskIds : tasks[t] = IdleTask

NextOffline ==
  \/ ~online /\ \E c \in Contents : SaveNote(c)
  \/ ~online /\ \E id \in LocalIds : OpenEditor(id)
  \/ ~online /\ \E id \in LocalIds : DeleteNote(id)
  \/ ~online /\ TickWeek
  \/ AllIdle /\ GoOnline
  \/ online /\ InitSync
  \/ \E t \in TaskIds : FlushBegin(t)
  \/ \E t \in TaskIds : FlushNext(t)
  \/ \E t \in TaskIds : FlushResp(t)
  \/ \E t \in TaskIds : PullFetch(t)
  \/ \E t \in TaskIds : PullMerge(t)
  \/ \E t \in TaskIds : PullWrite(t)
  \/ \E k \in 1..MaxTimers : TimerFire(k)

SpecOffline == InitDraft /\ [][NextOffline]_vars

\* the remote store reflects the latest local state of every note
RemoteReflectsLocal ==
  \A id \in DOMAIN notes :
    IF notes[id].deleted
    THEN notes[id].rid # 0 => notes[id].rid \notin DOMAIN remote
    ELSE \E r \in DOMAIN remote : /\ remote[r].title = notes[id].title
                                  /\ remote[r].body = notes[id].body

\* C3: when a cycle that ran online completes, the mutation queue is empty
\* and the remote store reflects every note edited offline.
NoDataLoss ==
  [][(online /\ isSyncing /\ ~isSyncing')
       => (mutations' = {} /\ RemoteReflectsLocal')]_vars

\* ---- C4, C5, C6: one note created on this device, pushed and pulled back -------------------------
\* The app is online with a draft open: note 1 is the only note ever created,
\* here or on another device. It is saved, reopened and saved again; sync
\* cycles, the direct flushQueue of saveNote and the real-time channel run in
\* any interleaving.
PushWithin ==
  /\ ticks <= FewTicks
  /\ Len(timers) <= FewTimers
  /\ channels <= FewChannels

NextPush ==
  \/ (\E c \in Contents : SaveNote(c)) /\ PushWithin'
  \/ (\E id \in LocalIds : OpenEditor(id)) /\ PushWithin'
  \/ (\E t \in TaskIds : FlushBegin(t)) /\ PushWithin'
  \/ (\E t \in TaskIds : FlushNext(t)) /\ PushWithin'
  \/ (\E t \in TaskIds : FlushResp(t)) /\ PushWithin'
  \/ (\E t \in TaskIds : PullFetch(t)) /\ PushWithin'
  \/ (\E t \in TaskIds : PullMerge(t)) /\ PushWithin'
  \/ (\E t \in TaskIds : PullWrite(t)) /\ PushWithin'
  \/ (\E k \in 1..MaxTimers : TimerFire(k)) /\ PushWithin'
  \/ InitSync /\ PushWithin'
  \/ SubscribeStatus /\ PushWithin'
  \/ RtDeliver /\ PushWithin'
  \/ TickCooldown /\ PushWithin'

SpecPush == InitPush /\ [][NextPush]_vars

\* C4: the one note created locally has at most one remote record.
NoDuplicateRemote == Cardinality(DOMAIN remote) <= 1

\* C5: no two non-deleted local notes share a remote_id, and the one logical
\* note has exactly one local record.
OneLocalRecord ==
  /\ \A a, b \in DOMAIN notes :
       (a # b /\ ~notes[a].deleted /\ ~notes[b].deleted /\ notes[a].rid # 0)
         => notes[a].rid # notes[b].rid
  /\ Cardinality(DOMAIN notes) <= 1

\* C6: the write of a pull that returns the pushed note leaves the number of
\* local records unchanged, and every returned row is then held, under its
\* remote_id, by a record that existed before the pull.
RoundTrip ==
  [][\A t \in TaskIds :
       (tasks[t].pc = "write" /\ tasks'[t].pc # "write")
         => /\ Cardinality(DOMAIN notes') = Cardinality(DOMAIN notes)
            /\ \A j \in 1..Len(tasks[t].data) :
                 \E id \in DOMAIN notes :
                   notes'[id].rid = tasks[t].data[j].id]_vars

\* ---- C7, C8, C10: merging a remote note that is also edited locally ------------------------------
\* Another device has created remote note 1 and goes on editing it. This
\* device pulls it, opens it in the editor and saves it, with the real-time
\* channel subscribed, in any interleaving with its sync cycles.
MergeWithin ==
  /\ ticks <= FewTicks
  /\ nextMut <= FewEdits + 1
  /\ channels <= FewChannels

NextMerge ==
  \/ SaveNote(<<"A", "x">>) /\ MergeWithin'
  \/ (\E id \in LocalIds : OpenEditor(id)) /\ MergeWithin'
  \/ (\E t \in TaskIds : FlushBegin(t)) /\ MergeWithin'
  \/ (\E t \in TaskIds : FlushNext(t)) /\ MergeWithin'
  \/ (\E t \in TaskIds : FlushResp(t)) /\ MergeWithin'
  \/ (\E t \in TaskIds : PullFetch(t)) /\ MergeWithin'
  \/ (\E t \in TaskIds : PullMerge(t)) /\ MergeWithin'
  \/ (\E t \in TaskIds : PullWrite(t)) /\ MergeWithin'
  \/ PeriodicSync /\ MergeWithin'
  \/ InitSync /\ MergeWithin'
  \/ SubscribeStatus /\ MergeWithin'
  \/ RtDeliver /\ MergeWithin'
  \/ TickMs /\ MergeWithin'
  \/ (\E rid \in RemoteIds, c \in OtherContents : OtherUpdate(rid, c))
       /\ MergeWithin'

SpecMerge == InitPull /\ [][NextMerge]_vars

\* the remote row pullRemote was looking at in its j-th lookup of the batch
RowAt(t, j) == BatchAt(tasks[t].data, tasks[t].off)[j]

\* this step is activation t's db.batchUpdateNotes
PullWrites(t) == tasks[t].pc = "write" /\ tasks'[t].pc # "write"

\* C7: neither pullRemote's batched write nor a real-time handler lowers the
\* stored updated_at of a note, whatever was saved since the merge read it.
MergeMonotone ==
  [][((\E t \in TaskIds : PullWrites(t))
        \/ (rtEvents # <<>> /\ rtEvents' = Tail(rtEvents)))
       => \A id \in DOMAIN notes : notes'[id].ts >= notes[id].ts]_vars

\* C8: when pullRemote found a local note with the row's remote_id, an equal
\* updated_at and a different body, its write leaves that note's title, body,
\* dirty and deleted fields as they were.
TieKeepsLocal ==
  [][\A t \in TaskIds : PullWrites(t) =>
       \A j \in 1..Len(tasks[t].found) :
         LET ex == tasks[t].found[j]
         IN (ex # NilNote /\ ex.ts = RowAt(t, j).ts /\ ex.body # RowAt(t, j).body)
              => /\ notes'[ex.id].title = notes[ex.id].title
                 /\ notes'[ex.id].body = notes[ex.id].body
                 /\ notes'[ex.id].dirty = notes[ex.id].dirty
                 /\ notes'[ex.id].deleted = notes[ex.id].deleted]_vars

\* C10: for every local note pullRemote matched to a remote row, pullRemote
\* decided to apply the row exactly when handleRemoteUpdate would have.
SameMergePredicate ==
  \A t \in TaskIds : tasks[t].pc = "write" =>
    \A j \in 1..Len(tasks[t].found) :
      LET ex == tasks[t].found[j]
      IN ex # NilNote =>
           ((\E k \in 1..Len(tasks[t].upd) : tasks[t].upd[k].id = ex.id)
              <=> RemoteNewer(ex, RowAt(t, j)))

\* ---- C9: last writer wins on pull ------------------------------------------------------------------
\* Another device has created remote note 1 and goes on editing it; this
\* device pulls it and deletes it locally (a tombstone with a new updated_at)
\* while its sync cycles run.
PullWithin ==
  /\ ticks <= FewTicks
  /\ nextMut <= FewEdits + 1

NextPull ==
  \/ (\E id \in LocalIds : DeleteNote(id)) /\ PullWithin'
  \/ (\E t \in TaskIds : FlushBegin(t)) /\ PullWithin'
  \/ (\E t \in TaskIds : FlushNext(t)) /\ PullWithin'
  \/ (\E t \in TaskIds : FlushResp(t)) /\ PullWithin'
  \/ (\E t \in TaskIds : PullFetch(t)) /\ PullWithin'
  \/ (\E t \in TaskIds : PullMerge(t)) /\ PullWithin'
  \/ (\E t \in TaskIds : PullWrite(t)) /\ PullWithin'
  \/ PeriodicSync /\ PullWithin'
  \/ TickMs /\ PullWithin'
  \/ (\E rid \in RemoteIds, c \in Contents : OtherUpdate(rid, c)) /\ PullWithin'

SpecPull == InitPull /\ [][NextPull]_vars

\* C9: for a local note pullRemote matched by remote_id, its write replaces
\* the title and body by the row's when the row's updated_at is greater than
\* the note's, and leaves the record as it is when it is smaller.
LastWriterWins ==
  [][\A t \in TaskIds : PullWrites(t) =>
       \A j \in 1..Len(tasks[t].found) :
         LET ex == tasks[t].found[j]
             r  == RowAt(t, j)
         IN ex # NilNote =>
              /\ r.ts > ex.ts => /\ notes'[ex.id].title = r.title
                                 /\ notes'[ex.id].body = r.body
              /\ r.ts < ex.ts => notes'[ex.id] = notes[ex.id]]_vars

\* pullRemote is about to write a row that is newer than the local note it
\* matched and differs from it
LastWriterWinsWitness ==
  \E t \in TaskIds :
    /\ tasks[t].pc = "write"
    /\ \E j \in 1..Len(tasks[t].found) :
         /\ tasks[t].found[j] # NilNote
         /\ RowAt(t, j).ts > tasks[t].found[j].ts
         /\ RowAt(t, j).body # tasks[t].found[j].body

\* ---- C11, C12: a queue longer than one flushQueue batch ------------------------------------------
\* Note 1 was pulled from the remote store and then saved n times while the
\* app was offline: the queue holds n upserts of note 1. The app is online
\* again and signed in.
InitQueued(n) ==
  /\ now = StartTime /\ ticks = 0
  /\ online = TRUE
  /\ authUser = "u1"
  /\ notes = (1 :> [id |-> 1, rid |-> 1, title |-> "A", body |-> "x",
                    ts |-> StartTime - 1, created |-> StartTime - 9,
                    uid |-> "u1", dirty |-> TRUE,
                    deleted |-> FALSE])
  /\ noteCache = <<>>
  /\ mutations = {[id |-> k, type |-> "upsert", noteId |-> 1,
                   ts |-> StartTime - (n + 1) + k] : k \in 1..n}
  /\ nextMut = n + 1
  /\ nextLocal = 2
  /\ editing = NilNote
  /\ remote = (1 :> [id |-> 1, title |-> "C", body |-> "z",
                     ts |-> StartTime - (n + 1), created |-> StartTime - 9,
                     uid |-> "u1"])
  /\ nextRemote = 2
  /\ userIdCache = NoUser /\ userIdCacheTime = 0
  /\ isSyncing = FALSE /\ syncQueue = 0 /\ lastSyncTime = 0
  /\ timers = <<>>
  /\ tasks = [t \in TaskIds |-> IdleTask]
  /\ realtimeSubscription = FALSE /\ isRealtimeEnabled = FALSE
  /\ channels = 0
  /\ rtEvents = <<>>
  /\ cyclesStarted = -1

\* One save more than a flushQueue batch holds. Connectivity comes and goes
\* while a sync cycle or handleOnline's flushQueue is running.
InitBacklog == InitQueued(FlushBatchSize + 1)

NextBacklog ==
  \/ PeriodicSync /\ TrigWithin'
  \/ isSyncing /\ GoOffline /\ TrigWithin'
  \/ isSyncing /\ GoOnline /\ TrigWithin'
  \/ (\E t \in TaskIds : FlushBegin(t)) /\ TrigWithin'
  \/ (\E t \in TaskIds : FlushNext(t)) /\ TrigWithin'
  \/ (\E t \in TaskIds : FlushResp(t)) /\ TrigWithin'
  \/ (\E t \in TaskIds : PullFetch(t)) /\ TrigWithin'
  \/ (\E t \in TaskIds : PullMerge(t)) /\ TrigWithin'
  \/ (\E t \in TaskIds : PullWrite(t)) /\ TrigWithin'
  \/ (\E k \in 1..MaxTimers : TimerFire(k)) /\ TrigWithin'
  \/ TickSecond /\ TrigWithin'

SpecBacklog == InitBacklog /\ [][NextBacklog]_vars

\* C11: a flushQueue invocation that has a remote call out for a mutation has
\* not left an earlier mutation of its list in the queue: once a remote call
\* failed, the invocation attempts no later mutation.
FailFast ==
  \A t \in TaskIds : tasks[t].pc = "fresp" =>
    \A k \in 1..(tasks[t].i - 1) : tasks[t].toSend[k] \notin mutations

\* C12: a mutation is never acknowledged after a successful remote call while
\* an earlier mutation of the same note is still in the queue.
PerNoteOrder ==
  [][\A t \in TaskIds :
       (/\ tasks[t].pc = "fresp" /\ tasks[t].res # 0
        /\ tasks[t].toSend[tasks[t].i] \in mutations
        /\ tasks[t].toSend[tasks[t].i] \notin mutations')
         => ~\E e \in mutations' :
               /\ e.noteId = tasks[t].toSend[tasks[t].i].noteId
               /\ e.id < tasks[t].toSend[tasks[t].i].id]_vars

\* ---- C13: a deleted note's tombstone reaches the remote store ------------------------------------
\* C13: when flushQueue takes up the 'delete' mutation of a note that has a
\* remote_id and the remote call succeeds, the call deletes the row with that
\* remote_id, and once the mutation is completed the local record exists
\* with deleted = TRUE.
TombstonePropagates ==
  [][\A t \in TaskIds :
       LET m == tasks[t].toSend[tasks[t].i] IN
       /\ (/\ tasks[t].pc = "fnext" /\ tasks'[t] # tasks[t]
           /\ m.type = "delete" /\ m.noteId \in DOMAIN notes
           /\ notes[m.noteId].rid # 0 /\ online)
            => notes[m.noteId].rid \notin DOMAIN remote'
       /\ (/\ tasks[t].pc = "fresp" /\ tasks'[t] # tasks[t]
           /\ tasks[t].op = "delete" /\ tasks[t].res # 0)
            => /\ m.noteId \in DOMAIN notes'
               /\ notes'[m.noteId].deleted]_vars

\* ---- C14: acknowledgement of a mutation whose remote call failed ---------------------------------
\* Note 1 has one unsent save in the queue. The user deletes it; sync cycles
\* run while connectivity comes and goes.
InitEdited == InitQueued(1)

NextTomb ==
  \/ (\E id \in LocalIds : DeleteNote(id)) /\ TrigWithin'
  \/ PeriodicSync /\ TrigWithin'
  \/ GoOffline /\ TrigWithin'
  \/ GoOnline /\ TrigWithin'
  \/ (\E t \in TaskIds : FlushBegin(t)) /\ TrigWithin'
  \/ (\E t \in TaskIds : FlushNext(t)) /\ TrigWithin'
  \/ (\E t \in TaskIds : FlushResp(t)) /\ TrigWithin'
  \/ (\E t \in TaskIds : PullFetch(t)) /\ TrigWithin'
  \/ (\E t \in TaskIds : PullMerge(t)) /\ TrigWithin'
  \/ (\E t \in TaskIds : PullWrite(t)) /\ TrigWithin'
  \/ (\E k \in 1..MaxTimers : TimerFire(k)) /\ TrigWithin'
  \/ TickSecond /\ TrigWithin'

SpecTomb == InitEdited /\ [][NextTomb]_vars

\* C14: a mutation for which flushQueue issued a remote call leaves the queue
\* only if that call succeeded.
AckAfterSuccess ==
  [][\A t \in TaskIds :
       (/\ tasks[t].pc = "fresp" /\ tasks'[t] # tasks[t]
        /\ tasks[t].toSend[tasks[t].i] \in mutations
        /\ tasks[t].toSend[tasks[t].i] \notin mutations')
         => tasks[t].res # 0]_vars

\* ---- C15: what a successful push leaves in the local record --------------------------------------
\* C15: when flushQueue's remote upsert has succeeded for a note that is not
\* tombstoned, the local record has remote_id = the returned id, user_id =
\* the user flushQueue resolved, and dirty = FALSE once the mutation is
\* completed.
PushRecorded ==
  [][\A t \in TaskIds :
       (/\ tasks[t].pc = "fresp" /\ tasks'[t] # tasks[t]
        /\ tasks[t].op = "upsert" /\ tasks[t].res # 0)
         => LET id == tasks[t].toSend[tasks[t].i].noteId IN
            /\ id \in DOMAIN notes'
            /\ notes'[id].rid = tasks[t].res
            /\ notes'[id].uid = tasks[t].user
            /\ ~notes'[id].dirty]_vars

\* ---- C16: flushQueue and pullRemote without an identity ------------------------------------------
\* C16: when the cache holds no valid user and the auth service reports none,
\* the step of flushQueue or pullRemote that resolves the user leaves the
\* remote store, every local note and the mutation queue as they were, and
\* the activation does not go on to a remote call.
NoIdentityNoSync ==
  [][\A t \in TaskIds :
       (/\ tasks[t].pc \in {"fstart", "pull"} /\ tasks'[t] # tasks[t]
        /\ ~UserCacheValid /\ AuthReport(online) = NoUser)
         => /\ remote' = remote /\ rtEvents' = rtEvents
            /\ notes' = notes
            /\ mutations' = mutations
            /\ tasks'[t].pc \notin {"fnext", "fresp", "merge", "write"}]_vars

\* a cycle has run through flushQueue and pullRemote with no identity: the
\* queue still holds the mutation and nothing reached the remote store
NoIdentityWitness ==
  /\ ~online /\ userIdCache = NoUser
  /\ lastSyncTime # 0 /\ ~isSyncing
  /\ mutations # {} /\ remote = <<>>

\* ---- C17: errors stay inside performSync ---------------------------------------------------------
\* C17: isSyncing is set only while a cycle is alive, and the step that ends
\* a cycle, after success or after an error, leaves isSyncing = FALSE and,
\* when syncQueue held a request, takes one request off it and schedules it
\* FollowUpDelay later.
FailureContained ==
  /\ [](isSyncing => \E t \in TaskIds : tasks[t].kind = "cycle")
  /\ [][\A t \in TaskIds :
          (tasks[t].kind = "cycle" /\ tasks'[t].kind # "cycle")
            => /\ ~isSyncing'
               /\ IF syncQueue > 0
                  THEN /\ syncQueue' = syncQueue - 1
                       /\ Len(timers') = Len(timers) + 1
                       /\ \E k \in 1..Len(timers') :
                            timers'[k] = now + FollowUpDelay
                  ELSE syncQueue' = 0 /\ timers' = timers]_vars

\* no cycle has succeeded yet, one that had resolved the user has ended
\* offline, and the request that waited in syncQueue is on a timer
FailureContainedWitness ==
  /\ lastSyncTime = 0 /\ userIdCache # NoUser /\ ~online
  /\ ~isSyncing /\ \A t \in TaskIds : tasks[t].kind # "cycle"
  /\ Len(timers) > 0

\* ---- C18: syncWithRetry ----------------------------------------------------------------------------
\* The app is online, signed in and idle. syncWithRetry is called once and
\* nothing else requests a sync; another device writes notes, the connection
\* may drop and the clock advances.
NextRetry ==
  \/ cyclesStarted = 0 /\ SyncWithRetry
  \/ GoOffline
  \/ (\E c \in OtherContents : OtherInsert(c))
  \/ (\E t \in TaskIds : FlushBegin(t))
  \/ (\E t \in TaskIds : PullFetch(t))
  \/ (\E t \in TaskIds : PullMerge(t))
  \/ (\E t \in TaskIds : PullWrite(t))
  \/ TickSecond
  \/ TickCooldown

SpecRetry == InitCoalesce /\ [][NextRetry]_vars

\* C18: once the cycle that syncWithRetry ran has failed (it is over and no
\* cycle has ever succeeded), syncWithRetry has another attempt running or
\* waiting on its backoff timer.
RetriesFailedCycle ==
  (cyclesStarted = 1 /\ lastSyncTime = 0) => (isSyncing \/ timers # <<>>)

\* ---- C19, C20: queueMutation during the cooldown -------------------------------------------------
\* A sync cycle has just completed: the app is online, signed in and idle,
\* lastSyncTime is the current time, and the two notes of the remote store
\* have been pulled. Cycles are counted from here.
InitSynced ==
  /\ now = StartTime /\ ticks = 0
  /\ online = TRUE
  /\ authUser = "u1"
  /\ notes = [id \in 1..2 |->
                [id |-> id, rid |-> id, title |-> "C", body |-> "z",
                 ts |-> StartTime - 1, created |-> StartTime - 9,
                 uid |-> "u1", dirty |-> FALSE,
                 deleted |-> FALSE]]
  /\ noteCache = <<>>
  /\ mutations = {} /\ nextMut = 1 /\ nextLocal = 3
  /\ editing = NilNote
  /\ remote = [id \in 1..2 |->
                 [id |-> id, title |-> "C", body |-> "z",
                  ts |-> StartTime - 1, created |-> StartTime - 9,
                  uid |-> "u1"]]
  /\ nextRemote = 3
  /\ userIdCache = "u1" /\ userIdCacheTime = StartTime
  /\ isSyncing = FALSE /\ syncQueue = 0 /\ lastSyncTime = StartTime
  /\ timers = <<>>
  /\ tasks = [t \in TaskIds |-> IdleTask]
  /\ realtimeSubscription = FALSE /\ isRealtimeEnabled = FALSE
  /\ channels = 0
  /\ rtEvents = <<>>
  /\ cyclesStarted = 0

\* a queueMutation call of the burst: inside the cooldown window of the last
\* cycle, no cycle in flight and none started since
InBurst ==
  /\ now - lastSyncTime < SYNC_COOLDOWN
  /\ cyclesStarted = 0 /\ ~isSyncing

\* The user deletes notes inside the cooldown window, each deleteNote calling
\* queueMutation; nothing else requests a sync. Another device edits the
\* remote notes and the clock advances by the cooldown.
TaskStep ==
  \E t \in TaskIds :
    \/ FlushBegin(t) \/ FlushNext(t) \/ FlushResp(t)
    \/ PullFetch(t) \/ PullMerge(t) \/ PullWrite(t)

NextBurst ==
  \/ InBurst /\ \E id \in LocalIds : DeleteNote(id)
  \/ \E k \in 1..MaxTimers : TimerFire(k)
  \/ TickCooldown
  \/ \E rid \in RemoteIds, c \in OtherContents : OtherUpdate(rid, c)
  \/ \E t \in TaskIds : FlushBegin(t)
  \/ \E t \in TaskIds : FlushNext(t)
  \/ \E t \in TaskIds : FlushResp(t)
  \/ \E t \in TaskIds : PullFetch(t)
  \/ \E t \in TaskIds : PullMerge(t)
  \/ \E t \in TaskIds : PullWrite(t)

SpecBurst == InitSynced /\ [][NextBurst]_vars

\* Timers that are due fire, the clock keeps advancing while it may, and an
\* activation that can take its next step takes it.
SpecBurstFair ==
  /\ SpecBurst
  /\ WF_vars(\E k \in 1..MaxTimers : TimerFire(k))
  /\ WF_vars(TickCooldown)
  /\ WF_vars(TaskStep)

\* C19: a mutation enqueued by queueMutation during the cooldown is
\* eventually in the list read by the flushQueue of a sync cycle.
DeferredSyncRuns ==
  (mutations # {}) ~>
    (\E t \in TaskIds : tasks[t].kind = "cycle" /\ tasks[t].toSend # <<>>)

\* the cooldown timer set by a queueMutation call has fired and the cycle it
\* started has read the queue
DeferredSyncWitness ==
  /\ now >= lastSyncTime + SYNC_COOLDOWN /\ lastSyncTime = StartTime
  /\ cyclesStarted = 1
  /\ \E t \in TaskIds : tasks[t].kind = "cycle" /\ tasks[t].toSend # <<>>

\* C20: the queueMutation calls made inside one cooldown window while no
\* cycle is in flight lead to one sync cycle.
BurstOneCycle == cyclesStarted <= 1

\* ---- C21: db.updateNote ----------------------------------------------------------------------------
\* the notes db.updateNote is called with, and the records the store may hold
NoteInputs ==
  {[id |-> i, rid |-> r, title |-> ti, body |-> bo, ts |-> t,
    created |-> StartTime, uid |-> "u1",
    dirty |-> d, deleted |-> x] :
      i \in {1, 2}, r \in {0, 1}, ti \in {"A", "B"}, bo \in {"x", "y"},
      t \in {StartTime, StartTime + 1}, d \in BOOLEAN, x \in BOOLEAN}

\* The store is empty or holds note 1, which db.getNote has cached; `editing`
\* is the note updateNote is about to be called with.
InitUpdateNote ==
  /\ now = StartTime + 1 /\ ticks = 0
  /\ online = TRUE
  /\ authUser = "u1"
  /\ \/ notes = <<>> /\ noteCache = <<>>
     \/ \E n \in NoteInputs : n.id = 1 /\ notes = (1 :> n) /\ noteCache = (1 :> n)
  /\ mutations = {} /\ nextMut = 1 /\ nextLocal = 3
  /\ editing \in NoteInputs
  /\ remote = <<>> /\ nextRemote = 1
  /\ userIdCache = NoUser /\ userIdCacheTime = 0
  /\ isSyncing = FALSE /\ syncQueue = 0 /\ lastSyncTime = 0
  /\ timers = <<>>
  /\ tasks = [t \in TaskIds |-> IdleTask]
  /\ realtimeSubscription = FALSE /\ isRealtimeEnabled = FALSE
  /\ channels = 0
  /\ rtEvents = <<>>
  /\ cyclesStarted = -1

\* db.updateNote(editing)
UpdateNoteCall ==
  /\ notes' = UpdateNoteNotes(notes, editing)
  /\ noteCache' = UpdateNoteCache(notes, noteCache, editing)
  /\ UNCHANGED <<envVars, mutations, nextMut, nextLocal, editing, remoteVars,
                 idVars, engVars, lastSyncTime, rtVars>>

SpecUpdateNote == InitUpdateNote /\ [][UpdateNoteCall]_vars

\* C21: whatever the store holds and whatever note updateNote is called
\* with, the call leaves the store as it was when the stored record with the
\* note's id has the same title, body and updated_at, and otherwise leaves
\* the note stored under its id with every other record untouched; a second
\* call with the same note changes nothing.
UpdateNoteContract ==
  LET same  == /\ editing.id \in DOMAIN notes
               /\ notes[editing.id].title = editing.title
               /\ notes[editing.id].body = editing.body
               /\ notes[editing.id].ts = editing.ts
      after == UpdateNoteNotes(notes, editing)
      cache == UpdateNoteCache(notes, noteCache, editing)
  IN /\ same => after = notes
     /\ ~same => /\ DOMAIN after = DOMAIN notes \cup {editing.id}
                 /\ after[editing.id] = editing
                 /\ \A k \in DOMAIN notes \ {editing.id} : after[k] = notes[k]
     /\ UpdateNoteNotes(after, editing) = after
     /\ UpdateNoteCache(after, cache, editing) = cache

\* updateNote has replaced a stored record that differed in content (the
\* cached copy of the old record is gone)
UpdateNoteWitness ==
  /\ 1 \in DOMAIN notes /\ notes[1] = editing
  /\ noteCache = <<>>

\* ---- C22, C23: connectivity events -----------------------------------------------------------------
\* C22: whenever the app is online (and an activation slot is free), the
\* 'online-status-change' listener called with online = true leaves a sync
\* requested -- a cycle started by it, or one more entry in syncQueue when a
\* cycle is in flight -- and a real-time subscription held.
ReconnectRequestsSync ==
  (online /\ \E t \in TaskIds : tasks[t].kind = "none") =>
    ENABLED (/\ OnlineStatusChange
             /\ isSyncing'
             /\ isSyncing => syncQueue' = syncQueue + 1
             /\ realtimeSubscription')

\* C23: no step taken while the app is offline starts a sync cycle.
NoSyncWhileOffline ==
  [][(~online /\ ~online') => ~(~isSyncing /\ isSyncing')]_vars

\* ---- C24, C25: what flushQueue leaves in the local record of a deleted note ---------------------
\* C24: the step in which flushQueue completes a 'delete' mutation of an
\* existing note -- after a successful remote delete, or at once when the
\* note has no remote_id -- leaves the note stored with deleted = TRUE and
\* dirty = FALSE.
DeleteOutcome ==
  [][\A t \in TaskIds :
       LET m == tasks[t].toSend[tasks[t].i] IN
       (/\ tasks[t].pc \in {"fnext", "fresp"}
        /\ m.type = "delete"
        /\ m \in mutations /\ m \notin mutations'
        /\ m.noteId \in DOMAIN notes)
         => /\ m.noteId \in DOMAIN notes'
            /\ notes'[m.noteId].deleted
            /\ ~notes'[m.noteId].dirty]_vars

\* C25: when flushQueue takes up an 'upsert' mutation whose note is stored
\* with deleted = TRUE it issues no remote upsert, and the step that follows
\* a successful remote delete for such a mutation leaves the note stored
\* with deleted = TRUE and dirty = FALSE.
TombstoneNotUpserted ==
  [][\A t \in TaskIds :
       LET m == tasks[t].toSend[tasks[t].i] IN
       /\ (/\ tasks[t].pc = "fnext" /\ tasks'[t] # tasks[t]
           /\ m.type = "upsert" /\ m.noteId \in DOMAIN notes
           /\ notes[m.noteId].deleted)
            => tasks'[t].op # "upsert"
       /\ (/\ tasks[t].pc = "fresp" /\ tasks'[t] # tasks[t]
           /\ tasks[t].op = "tomb" /\ tasks[t].res # 0
           /\ m.noteId \in DOMAIN notes)
            => /\ m.noteId \in DOMAIN notes'
               /\ notes'[m.noteId].deleted
               /\ ~notes'[m.noteId].dirty]_vars

\* ---- C26: the note flushQueue works from ------------------------------------------------------------
\* C26: when flushQueue issues the remote call for a mutation, the note it
\* sends from (title, body, deleted flag and remote_id) is the record stored
\* at that moment.
FlushReadsCurrent ==
  [][\A t \in TaskIds :
       LET m == tasks[t].toSend[tasks[t].i] IN
       (/\ tasks[t].pc = "fnext" /\ tasks'[t].pc = "fresp"
        /\ m.noteId \in DOMAIN notes)
         => /\ tasks'[t].note.title = notes[m.noteId].title
            /\ tasks'[t].note.body = notes[m.noteId].body
            /\ tasks'[t].note.deleted = notes[m.noteId].deleted
            /\ tasks'[t].note.rid = notes[m.noteId].rid]_vars

\* ---- C27, C28: mutations whose note is not in the local store -----------------------------------
\* The database the app opens holds a queue written earlier: its first
\* mutation, an upsert or a delete, targets note 1, of which the notes table
\* has no record (nothing in this code removes a note record; the queue and
\* the table persist across app versions and sessions). The second mutation
\* is the unsent edit of note 2, which the server holds as row 1. The app is
\* online and signed in.
InitOrphan ==
  /\ now = StartTime /\ ticks = 0
  /\ online = TRUE
  /\ authUser = "u1"
  /\ notes = (2 :> [id |-> 2, rid |-> 1, title |-> "A", body |-> "x",
                    ts |-> StartTime - 1, created |-> StartTime - 9,
                    uid |-> "u1", dirty |-> TRUE,
                    deleted |-> FALSE])
  /\ noteCache = <<>>
  /\ \E ty \in {"upsert", "delete"} :
       mutations = {[id |-> 1, type |-> ty, noteId |-> 1, ts |-> StartTime - 2],
                    [id |-> 2, type |-> "upsert", noteId |-> 2, ts |-> StartTime - 1]}
  /\ nextMut = 3
  /\ nextLocal = 3
  /\ editing = NilNote
  /\ remote = (1 :> [id |-> 1, title |-> "C", body |-> "z",
                     ts |-> StartTime - 3, created |-> StartTime - 9,
                     uid |-> "u1"])
  /\ nextRemote = 2
  /\ userIdCache = NoUser /\ userIdCacheTime = 0
  /\ isSyncing = FALSE /\ syncQueue = 0 /\ lastSyncTime = 0
  /\ timers = <<>>
  /\ tasks = [t \in TaskIds |-> IdleTask]
  /\ realtimeSubscription = FALSE /\ isRealtimeEnabled = FALSE
  /\ channels = 0
  /\ rtEvents = <<>>
  /\ cyclesStarted = -1

NextOrphan ==
  \/ PeriodicSync /\ TrigWithin'
  \/ GoOffline /\ TrigWithin'
  \/ GoOnline /\ TrigWithin'
  \/ (\E t \in TaskIds : FlushBegin(t)) /\ TrigWithin'
  \/ (\E t \in TaskIds : FlushNext(t)) /\ TrigWithin'
  \/ (\E t \in TaskIds : FlushResp(t)) /\ TrigWithin'
  \/ (\E t \in TaskIds : PullFetch(t)) /\ TrigWithin'
  \/ (\E t \in TaskIds : PullMerge(t)) /\ TrigWithin'
  \/ (\E t \in TaskIds : PullWrite(t)) /\ TrigWithin'
  \/ (\E k \in 1..MaxTimers : TimerFire(k)) /\ TrigWithin'
  \/ TickSecond /\ TrigWithin'

SpecOrphan == InitOrphan /\ [][NextOrphan]_vars

\* flushQueue takes up mutation number i of its list, of the given type, and
\* the notes table has no record of the mutation's note
TakesUpMissing(t, ty) ==
  /\ tasks[t].pc = "fnext" /\ tasks'[t] # tasks[t]
  /\ tasks[t].toSend[tasks[t].i].type = ty
  /\ tasks[t].toSend[tasks[t].i].noteId \notin DOMAIN notes

\* flushQueue is done with mutation number i and goes on with the next
\* mutation of its list, if there is one
GoesOn(t) ==
  /\ tasks'[t].pc # "fresp"
  /\ tasks[t].i < Len(tasks[t].toSend)
       => tasks'[t].pc = "fnext" /\ tasks'[t].i = tasks[t].i + 1

\* C27: an 'upsert' mutation whose note is not in the local store is removed
\* from the queue without a remote call and without touching the notes, and
\* flushQueue goes on with the next mutation.
MissingUpsertDropped ==
  [][\A t \in TaskIds :
       TakesUpMissing(t, "upsert")
         => /\ tasks[t].toSend[tasks[t].i] \notin mutations'
            /\ remote' = remote /\ rtEvents' = rtEvents
            /\ notes' = notes
            /\ GoesOn(t)]_vars

\* the orphan upsert has been dropped and the mutation behind it is being
\* sent by the same flushQueue
MissingUpsertWitness ==
  \E t \in TaskIds :
    /\ tasks[t].pc = "fresp" /\ tasks[t].i = 2
    /\ tasks[t].toSend[1].type = "upsert"
    /\ tasks[t].toSend[1] \notin mutations
    /\ tasks[t].toSend[2] \in mutations

\* C28: a 'delete' mutation whose note is not in the local store is removed
\* from the queue, no note record is created, and flushQueue goes on with
\* the next mutation.
MissingDeleteDropped ==
  [][\A t \in TaskIds :
       TakesUpMissing(t, "delete")
         => /\ tasks[t].toSend[tasks[t].i] \notin mutations'
            /\ notes' = notes
            /\ GoesOn(t)]_vars

\* ---- C29, C30: the real-time handlers ------------------------------------------------------------
\* The app is online, signed in and subscribed; a cycle has just ended.
\* Local note 1 is the synced copy of remote row 1. Row 2, if there is one,
\* was inserted by another device of the user after the cycle's pull and
\* before the channel had joined, so no event and no pull has brought it
\* here. The other device inserts and edits rows and deletes row 1, while
\* the user deletes note 1 here and the periodic sync runs cycles.
InitRealtime ==
  /\ now = StartTime /\ ticks = 0
  /\ online = TRUE
  /\ authUser = "u1"
  /\ notes = (1 :> [id |-> 1, rid |-> 1, title |-> "A", body |-> "x",
                    ts |-> StartTime - 1, created |-> StartTime - 9,
                    uid |-> "u1", dirty |-> FALSE, deleted |-> FALSE])
  /\ noteCache = <<>>
  /\ mutations = {} /\ nextMut = 1 /\ nextLocal = 2
  /\ editing = NilNote
  /\ \E missed \in 0..1 :
       /\ remote = [id \in 1..(1 + missed) |->
                      [id |-> id, title |-> "A", body |-> "x",
                       ts |-> StartTime - 1, created |-> StartTime - 9,
                       uid |-> "u1"]]
       /\ nextRemote = 2 + missed
  /\ userIdCache = "u1" /\ userIdCacheTime = StartTime
  /\ isSyncing = FALSE /\ syncQueue = 0 /\ lastSyncTime = StartTime
  /\ timers = <<>>
  /\ tasks = [t \in TaskIds |-> IdleTask]
  /\ realtimeSubscription = TRUE /\ isRealtimeEnabled = TRUE
  /\ channels = 1
  /\ rtEvents = <<>>
  /\ cyclesStarted = 0

\* The clock advances by milliseconds only, so the timer that a deleteNote
\* inside the cooldown window sets does not come due.
RtWithin ==
  /\ ticks <= FewTicks
  /\ syncQueue <= FewQueue
  /\ Len(timers) <= FewTimers
  /\ nextMut <= FewEdits + 1
  /\ cyclesStarted <= FewCycles

\* the other device makes its next change once the event of its last one
\* has been handled here and no cycle is in flight here
OtherActs == rtEvents = <<>> /\ ~isSyncing

NextRealtime ==
  \/ OtherActs /\ (\E c \in OtherContents : OtherInsert(c)) /\ RtWithin'
  \/ OtherActs /\ (\E rid \in RemoteIds, c \in OtherContents :
                     OtherUpdate(rid, c)) /\ RtWithin'
  \/ OtherActs /\ OtherDelete(1) /\ RtWithin'
  \/ RtDeliver /\ RtWithin'
  \/ DeleteNote(1) /\ RtWithin'
  \/ PeriodicSync /\ RtWithin'
  \/ (\E t \in TaskIds : FlushBegin(t)) /\ RtWithin'
  \/ (\E t \in TaskIds : FlushNext(t)) /\ RtWithin'
  \/ (\E t \in TaskIds : FlushResp(t)) /\ RtWithin'
  \/ (\E t \in TaskIds : PullFetch(t)) /\ RtWithin'
  \/ (\E t \in TaskIds : PullMerge(t)) /\ RtWithin'
  \/ (\E t \in TaskIds : PullWrite(t)) /\ RtWithin'
  \/ TickMs /\ RtWithin'

SpecRealtime == InitRealtime /\ [][NextRealtime]_vars

\* the postgres_changes callback handles an event of the given type
Handles(type) ==
  /\ rtEvents # <<>>
  /\ Head(rtEvents).type = type
  /\ rtEvents' = Tail(rtEvents)

\* C29: after a DELETE event for a row that a local note has as its
\* remote_id, that note is still stored, with deleted = true and
\* dirty = false.
RtDeleteMarks ==
  [][(Handles("DELETE") /\ HasRemoteId(notes, Head(rtEvents).row.id))
       => LET id == FindByRemoteId(notes, Head(rtEvents).row.id).id
          IN /\ id \in DOMAIN notes'
             /\ notes'[id].deleted
             /\ ~notes'[id].dirty]_vars

CooldownRespected ==
  now - StartTime < SYNC_COOLDOWN => cyclesStarted <= 1

\* ---- C32: a mutation enqueued while a cycle is in flight ----------------------------------------
\* the cycle in flight has read the mutation queue (flushQueue, line 100)
MidFlight ==
  \E t \in TaskIds : tasks[t].kind = "cycle" /\ tasks[t].pc # "fstart"

\* The periodic timer starts one cycle; the user deletes notes only while
\* that cycle is in flight and has read the queue, each deleteNote calling
\* queueMutation. Nothing else requests a sync, so no timer is ever set.
\* Another device edits the remote notes and the clock advances.
NextMid ==
  \/ cyclesStarted = 0 /\ PeriodicSync
  \/ MidFlight /\ \E id \in LocalIds : DeleteNote(id)
  \/ TickCooldown
  \/ \E rid \in RemoteIds, c \in OtherContents : OtherUpdate(rid, c)
  \/ \E t \in TaskIds : FlushBegin(t)
  \/ \E t \in TaskIds : PullFetch(t)
  \/ \E t \in TaskIds : PullMerge(t)
  \/ \E t \in TaskIds : PullWrite(t)

SpecMid == InitSynced /\ [][NextMid]_vars

\* The clock keeps advancing while it may, and an activation that can take
\* its next step takes it.
SpecMidFair ==
  /\ SpecMid
  /\ WF_vars(TickCooldown)
  /\ WF_vars(TaskStep)

\* C32: a mutation enqueued by queueMutation while a cycle is in flight is
\* followed by another sync cycle.
MidCycleHonored == (mutations # {}) ~> (cyclesStarted >= 2)

\* ---- C33: note records are never removed ----------------------------------------------------------
\* The app is online, signed in and subscribed, and local note 1 is the
\* synced copy of remote row 1. The user opens, edits, saves and deletes the
\* note, saveNote calling flushQueue directly once the flushQueue of the
\* save before has returned; another device edits and deletes the row; the
\* periodic sync runs cycles. All of it happens within one millisecond.
InitStore ==
  /\ InitRealtime
  /\ nextRemote = 2

NoDirectFlush == \A t \in TaskIds : tasks[t].kind # "flush"

NextStore ==
  \/ OpenEditor(1) /\ RtWithin'
  \/ NoDirectFlush /\ SaveNote(<<"B", "y">>) /\ RtWithin'
  \/ DeleteNote(1) /\ RtWithin'
  \/ OtherActs /\ (\E c \in OtherContents : OtherUpdate(1, c)) /\ RtWithin'
  \/ OtherActs /\ OtherDelete(1) /\ RtWithin'
  \/ RtDeliver /\ RtWithin'
  \/ PeriodicSync /\ RtWithin'
  \/ (\E t \in TaskIds : FlushBegin(t)) /\ RtWithin'
  \/ (\E t \in TaskIds : FlushNext(t)) /\ RtWithin'
  \/ (\E t \in TaskIds : FlushResp(t)) /\ RtWithin'
  \/ (\E t \in TaskIds : PullFetch(t)) /\ RtWithin'
  \/ (\E t \in TaskIds : PullMerge(t)) /\ RtWithin'
  \/ (\E t \in TaskIds : PullWrite(t)) /\ RtWithin'

SpecStore == InitStore /\ [][NextStore]_vars

\* C33: no step of saveNote, deleteNote, flushQueue, pullRemote or the
\* real-time handlers removes a note record: the set of local note ids
\* never shrinks.
NotesNeverRemoved == [][DOMAIN notes \subseteq DOMAIN notes']_vars

\* note 1 has been deleted here, its row has been deleted remotely and its
\* 'delete' mutation has been acknowledged; the record is still stored
NotesNeverRemovedWitness ==
  /\ 1 \in DOMAIN notes /\ notes[1].deleted
  /\ 1 \notin DOMAIN remote
  /\ nextMut > 1 /\ mutations = {}

\* ---- C34: confirmed tombstones ----------------------------------------------------------------------
\* the deletion of local note id has been confirmed: the note is marked
\* deleted, its remote row is gone and no mutation for it is left in the queue
Confirmed(id) ==
  /\ notes[id].deleted
  /\ notes[id].rid # 0 /\ notes[id].rid \notin DOMAIN remote
  /\ \A m \in mutations : m.noteId # id

\* C34: a note whose deletion has been confirmed remotely keeps deleted =
\* true in every later step of pullRemote, flushQueue and the real-time
\* handlers.
TombstoneStays ==
  [][\A id \in DOMAIN notes : Confirmed(id) => notes'[id].deleted]_vars

\* ---- C35: push before pull ------------------------------------------------------------------------
\* C35: a cycle comes to pullRemote only by the return of its flushQueue,
\* and pullRemote's rows are merged only after its fetch: in every cycle the
\* push phase has finished before the pull's remote fetch begins.
PushBeforePull ==
  [][\A t \in TaskIds :
       /\ (tasks'[t].pc = "pull" /\ tasks[t].pc # "pull")
            => /\ tasks[t].kind = "cycle"
               /\ tasks[t].pc \in {"fstart", "fnext", "fresp"}
       /\ (tasks'[t].pc = "merge" /\ tasks[t].pc \notin {"merge", "write"})
            => tasks[t].kind = "cycle" /\ tasks[t].pc = "pull"]_vars

\* a cycle's flushQueue has pushed the queued 'delete' mutation and has
\* returned, and the cycle is at pullRemote's fetch
PushBeforePullWitness ==
  /\ \E t \in TaskIds : tasks[t].kind = "cycle" /\ tasks[t].pc = "pull"
  /\ nextMut > 1 /\ mutations = {}
  /\ remote = <<>>

\* ---- C36: the identity used by the sync engine ----------------------------------------------------
\* App.tsx 414: supabase.auth.signOut(); nothing in sync.ts is told
SignOut ==
  /\ authUser # NoUser
  /\ authUser' = NoUser
  /\ UNCHANGED <<now, ticks, online, storeVars, editing, remoteVars, idVars,
                 engVars, lastSyncTime, rtVars>>

\* Note 1 has an unsent edit. The user signs out while the periodic timer
\* and the 'online' event go on starting cycles and flushQueue calls.
NextIdentity ==
  \/ SignOut /\ TrigWithin'
  \/ PeriodicSync /\ TrigWithin'
  \/ GoOffline /\ TrigWithin'
  \/ GoOnline /\ TrigWithin'
  \/ (\E t \in TaskIds : FlushBegin(t)) /\ TrigWithin'
  \/ (\E t \in TaskIds : FlushNext(t)) /\ TrigWithin'
  \/ (\E t \in TaskIds : FlushResp(t)) /\ TrigWithin'
  \/ (\E t \in TaskIds : PullFetch(t)) /\ TrigWithin'
  \/ (\E t \in TaskIds : PullMerge(t)) /\ TrigWithin'
  \/ (\E t \in TaskIds : PullWrite(t)) /\ TrigWithin'
  \/ (\E k \in 1..MaxTimers : TimerFire(k)) /\ TrigWithin'
  \/ TickSecond /\ TrigWithin'

SpecIdentity == InitEdited /\ [][NextIdentity]_vars

\* C36: the identity flushQueue and pullRemote get from getUserId is the
\* user the identity provider reports at that moment, and a remote call
\* issued by flushQueue carries the id of that user.
IdentityCurrent ==
  [][\A t \in TaskIds :
       /\ (tasks[t].pc \in {"fstart", "pull"} /\ tasks'[t].pc # tasks[t].pc
           /\ tasks'[t].user # NoUser)
            => tasks'[t].user = authUser
       /\ (tasks[t].pc = "fnext" /\ tasks'[t].pc = "fresp")
            => tasks[t].user = authUser]_vars

\* ---- C37: overlapping push phases -------------------------------------------------------------------
\* the activation is inside flushQueue, called by performSync or directly
InFlush(t) == tasks[t].pc \in {"fstart", "fnext", "fresp"}

\* C37: at most one execution of flushQueue is in progress at any time, and
\* no mutation has its remote operation in flight from two executions.
OneFlushAtATime ==
  /\ Cardinality({t \in TaskIds : InFlush(t)}) <= 1
  /\ \A t, u \in TaskIds :
       (t # u /\ tasks[t].pc = "fresp" /\ tasks[u].pc = "fresp")
         => tasks[t].toSend[tasks[t].i] # tasks[u].toSend[tasks[u].i]

\* ---- C38: an edit saved while the note's upsert is in flight --------------------------------------
\* C38: when flushQueue writes back the result of a remote upsert and the
\* stored note has been edited and saved since flushQueue read it (its
\* updated_at is above that of the note read and its title differs), the
\* stored title, body and updated_at stay as saved.
NoLostEdit ==
  [][\A t \in TaskIds :
       (/\ tasks[t].pc = "fresp" /\ tasks'[t] # tasks[t]
        /\ tasks[t].op = "upsert"
        /\ tasks[t].note.id \in DOMAIN notes
        /\ notes[tasks[t].note.id].ts > tasks[t].note.ts
        /\ notes[tasks[t].note.id].title # tasks[t].note.title)
         => LET id == tasks[t].note.id
            IN /\ notes'[id].title = notes[id].title
               /\ notes'[id].body = notes[id].body
               /\ notes'[id].ts = notes[id].ts]_vars

\* ---- C39: the real-time channel ---------------------------------------------------------------------
\* The app is online, signed in and idle. initSync runs once; connectivity
\* comes and goes, the 'online' and 'online-status-change' listeners and the
\* channel's status callback run in any order.
ChanWithin ==
  /\ ticks <= FewTicks
  /\ syncQueue <= FewQueue
  /\ Len(timers) <= FewTimers

NextChan ==
  \/ cyclesStarted = 0 /\ InitSync /\ ChanWithin'
  \/ GoOffline /\ ChanWithin'
  \/ GoOnline /\ ChanWithin'
  \/ OnlineStatusChange /\ ChanWithin'
  \/ SubscribeStatus /\ ChanWithin'
  \/ (\E t \in TaskIds : FlushBegin(t)) /\ ChanWithin'
  \/ (\E t \in TaskIds : PullFetch(t)) /\ ChanWithin'
  \/ (\E k \in 1..MaxTimers : TimerFire(k)) /\ ChanWithin'
  \/ TickSecond /\ ChanWithin'

SpecChan == InitCoalesce /\ [][NextChan]_vars

\* C39: at most one real-time channel exists at any time.
SingleChannel == channels <= 1
====
